---- MODULE Spec2Model ----
(***************************************************************************)
(* tau: time series database (tau.py).  A model of the storage backends    *)
(* (MemoryBackend, CSVBackend, BinaryBackend, GlueBackend) and of the Tau  *)
(* query layer, written from the source.                                   *)
(*                                                                         *)
(* Time is an integer number of microseconds (the resolution of            *)
(* datetime) counted from an instant that is a whole, even second.         *)
(* Strings that the code inspects character by character (signal names,    *)
(* file names, glob patterns) are sequences of one-character strings.      *)
(***************************************************************************)
EXTENDS Integers, Sequences, FiniteSets, TLC

VARIABLES under, backends, clock, mem_state, fs, last

vars == <<under, backends, clock, mem_state, fs, last>>

(***************************************************************************)
(* Bounds of the model                                                     *)
(***************************************************************************)
\* most samples MemoryBackend holds before the model stops writing to it
MaxMemSamples == 2
\* most records the log files of one backend hold before the model stops
\* writing to it
MaxFileRecords == 2
\* most samples a member of a GlueBackend holds before the model stops
\* writing through the GlueBackend
MaxGlueRecords == 1
\* largest `limit` argument tried
MaxLimit == 2

(***************************************************************************)
(* Time                                                                    *)
(***************************************************************************)
\* microseconds in a second: timedelta(seconds=1)
MICROS == 1000000
\* MemoryBackend(1): the retention window, in seconds
cache_seconds == 1

\* the readings datetime.now() can give: whole seconds (0, 1000000), readings
\* exactly one window apart (0, 1000000), more than one window apart
\* (0, 1000007) and less (500000)
Instants == {0, 500000, 1000000, 1000007}

\* an optional argument: <<>> is None, <<x>> is x
None == <<>>
Some(x) == <<x>>
Opt(S) == {None} \cup {Some(x) : x \in S}

\* the successive readings of datetime.now() during one call that starts at
\* time `from`: k readings, the first at `from`, none earlier than the one
\* before
RECURSIVE Readings(_, _)
Readings(from, k) ==
    IF k = 0 THEN {<<>>}
    ELSE IF k = 1 THEN {<<from>>}
    ELSE UNION {{r \o <<t>> : t \in {i \in Instants : i >= r[k - 1]}} :
                r \in Readings(from, k - 1)}

(***************************************************************************)
(* Results of a call                                                       *)
(***************************************************************************)
Ok(v) == [kind |-> "ok", val |-> v]
Raise(e) == [kind |-> e, val |-> <<>>]

\* result[::step]: the elements at indices 0, step, 2*step, ...
Slice(result, step) ==
    [i \in 1..((Len(result) + step - 1) \div step) |-> result[(i - 1) * step + 1]]

\* the step without its + 1 (len(result) / limit, at least 1)
DecimateNoPlusOne(result, limit) ==
    LET q == IF limit = None THEN 1 ELSE Len(result) \div limit[1]
    IN Slice(result, IF q = 0 THEN 1 ELSE q)

\* the limit taken as the step (result[::limit])
DecimateStepIsLimit(result, limit) ==
    Slice(result, IF limit = None THEN 1 ELSE limit[1])

\* step = 1 if limit is None else len(result) / limit + 1; result[::step]
Decimate(result, limit) ==
    LET step == IF limit = None THEN 1 ELSE (Len(result) \div limit[1]) + 1
    IN Slice(result, step)

\* [kv for kv in series if start <= kv[0] <= end]
InRange(series, start, end) ==
    SelectSeq(series, LAMBDA kv : start <= kv[1] /\ kv[1] <= end)

(***************************************************************************)
(* Python values.  A value is a record of one shape: an int n, a float     *)
(* n * 2^e (n odd, or n = 0 and e = 0), a str / list / tuple xs.           *)
(***************************************************************************)
PyInt(n) == [ty |-> "int", n |-> n, e |-> 0, xs |-> <<>>]
PyFloat(n, e) == [ty |-> "float", n |-> n, e |-> e, xs |-> <<>>]
PyStr(cs) == [ty |-> "str", n |-> 0, e |-> 0, xs |-> cs]
PyList(xs) == [ty |-> "list", n |-> 0, e |-> 0, xs |-> xs]
PyTuple(xs) == [ty |-> "tuple", n |-> 0, e |-> 0, xs |-> xs]

Abs(n) == IF n < 0 THEN -n ELSE n

\* the float n * 2^e with n made odd
RECURSIVE Normalize(_, _)
Normalize(n, e) ==
    IF n = 0 THEN PyFloat(0, 0)
    ELSE IF n % 2 = 0 THEN Normalize(n \div 2, e + 1)
    ELSE PyFloat(n, e)

\* number of binary digits of n > 0
RECURSIVE BitLength(_)
BitLength(n) == IF n = 0 THEN 0 ELSE 1 + BitLength(n \div 2)

RECURSIVE Pow2(_)
Pow2(k) == IF k = 0 THEN 1 ELSE 2 * Pow2(k - 1)

Digits == <<"0", "1", "2", "3", "4", "5", "6", "7", "8", "9">>
IsDigit(c) == \E d \in 1..10 : Digits[d] = c
DigitValue(c) == (CHOOSE d \in 1..10 : Digits[d] = c) - 1

RECURSIVE ParseDigits(_)
ParseDigits(cs) ==
    IF cs = <<>> THEN 0
    ELSE 10 * ParseDigits(SubSeq(cs, 1, Len(cs) - 1)) + DigitValue(cs[Len(cs)])

\* float(value): [kind |-> "ok", val |-> the float], or the exception raised.
\* An int or a float converts; a str converts when it is a decimal numeral
\* (here: digits only), else ValueError; a list or tuple gives TypeError.
float(value) ==
    CASE value.ty = "int" -> Ok(Normalize(value.n, 0))
      [] value.ty = "float" -> Ok(value)
      [] value.ty = "str" ->
            IF value.xs # <<>> /\ \A i \in 1..Len(value.xs) : IsDigit(value.xs[i])
            THEN Ok(Normalize(ParseDigits(value.xs), 0))
            ELSE Raise("ValueError")
      [] OTHER -> Raise("TypeError")

\* Python's ==: numbers compare by value (1 == 1.0), a str equals the unicode
\* of the same characters, a list never equals a tuple
PyEq(a, b) ==
    IF a.ty \in {"int", "float"} /\ b.ty \in {"int", "float"}
    THEN float(a).val = float(b).val
    ELSE a = b

(***************************************************************************)
(* MemoryBackend                                                           *)
(***************************************************************************)
\* what a backend call gives back: the backend's data after the call, the
\* call's result and the number of datetime.now() readings it took
Outcome(data, res, used) == [data |-> data, res |-> res, used |-> used]

\* _truncate keeping a sample that is exactly `period` old (<= for <)
TruncateKeepsBoundary(state, period, t) ==
    [key \in DOMAIN state |->
        SelectSeq(state[key], LAMBDA kv : t - kv[1] <= period * MICROS)]

\* MemoryBackend._truncate(state, period), now being the reading t
Truncate(state, period, t) ==
    [key \in DOMAIN state |->
        SelectSeq(state[key], LAMBDA kv : t - kv[1] < period * MICROS)]

\* MemoryBackend.set(key, value); c[1], c[2] are the two readings of now()
MemoryBackend_set(state, key, value, c) ==
    LET s1 == IF key \in DOMAIN state THEN state ELSE (key :> <<>>) @@ state
        s2 == [s1 EXCEPT ![key] = Append(@, <<c[1], value>>)]
    IN Outcome(Truncate(s2, cache_seconds, c[2]), Ok(<<>>), 2)

\* MemoryBackend.get without the test that `start` lies inside the window
\* (start < end < now for period < start < end < now)
MemoryBackend_get_NoWindowTest(state, signal, start, end, limit, c) ==
    LET s1 == [key \in DOMAIN state |->
                  SelectSeq(state[key],
                            LAMBDA kv : c[1] - kv[1] < cache_seconds * MICROS)]
    IN IF signal \notin DOMAIN s1 \/ s1[signal] = <<>>
       THEN Outcome(s1, Ok(<<>>), 1)
       ELSE IF start # None /\ end # None
       THEN IF ~(start[1] < end[1] /\ end[1] < c[2])
            THEN Outcome(s1, Raise("BackendError"), 2)
            ELSE Outcome(s1,
                     Ok(Decimate(InRange(s1[signal], start[1], end[1]), limit)),
                     2)
       ELSE Outcome(s1, Ok(<<s1[signal][Len(s1[signal])]>>), 1)

\* MemoryBackend.get testing the range before it looks whether the signal
\* holds anything
MemoryBackend_get_RangeTestFirst(state, signal, start, end, limit, c) ==
    LET s1 == Truncate(state, cache_seconds, c[1])
        held == IF signal \in DOMAIN s1 THEN s1[signal] ELSE <<>>
    IN IF start # None /\ end # None
       THEN IF ~(c[2] - cache_seconds * MICROS < start[1] /\ start[1] < end[1]
                   /\ end[1] < c[2])
            THEN Outcome(s1, Raise("BackendError"), 2)
            ELSE Outcome(s1, Ok(Decimate(InRange(held, start[1], end[1]), limit)),
                         2)
       ELSE IF held = <<>> THEN Outcome(s1, Ok(<<>>), 1)
       ELSE Outcome(s1, Ok(<<held[Len(held)]>>), 1)

\* MemoryBackend.get(signal, start, end, limit)
MemoryBackend_get(state, signal, start, end, limit, c) ==
    LET s1 == Truncate(state, cache_seconds, c[1])
    IN IF signal \notin DOMAIN s1 \/ s1[signal] = <<>>
       THEN Outcome(s1, Ok(<<>>), 1)
       ELSE IF start # None /\ end # None
       THEN LET now == c[2]
                period == now - cache_seconds * MICROS
            IN IF ~(period < start[1] /\ start[1] < end[1] /\ end[1] < now)
               THEN Outcome(s1, Raise("BackendError"), 2)
               ELSE Outcome(s1,
                        Ok(Decimate(InRange(s1[signal], start[1], end[1]), limit)),
                        2)
       ELSE Outcome(s1, Ok(<<s1[signal][Len(s1[signal])]>>), 1)

\* MemoryBackend.signals()
MemoryBackend_signals(state) == DOMAIN state

\* MemoryBackend.clear()
MemoryBackend_clear(state) == <<>>

(***************************************************************************)
(* Character strings and the directory of log files                        *)
(***************************************************************************)
\* f.endswith(suffix)
EndsWith(f, suffix) ==
    /\ Len(f) >= Len(suffix)
    /\ SubSeq(f, Len(f) - Len(suffix) + 1, Len(f)) = suffix

\* f.rstrip(chars): f without its longest tail made of characters of `chars`
RECURSIVE RStrip(_, _)
RStrip(f, chars) ==
    IF f # <<>> /\ \E i \in 1..Len(chars) : chars[i] = f[Len(f)]
    THEN RStrip(SubSeq(f, 1, Len(f) - 1), chars)
    ELSE f

ExtCSV == <<".", "c", "s", "v">>
ExtTIME == <<".", "T", "I", "M", "E">>
ExtVALUE == <<".", "V", "A", "L", "U", "E">>

\* open(name, 'a').write(record): the file is created when it is not there
AppendFile(files, name, record) ==
    IF name \in DOMAIN files
    THEN [files EXCEPT ![name] = Append(@, record)]
    ELSE (name :> <<record>>) @@ files

\* touch name: the file is created empty when it is not there
TouchFile(files, name) ==
    IF name \in DOMAIN files THEN files ELSE (name :> <<>>) @@ files

\* os.remove of every file whose name ends with one of the extensions
RemoveFiles(files, extensions) ==
    [name \in {f \in DOMAIN files : \A x \in extensions : ~EndsWith(f, x)} |->
        files[name]]

\* the same when os.remove raises OSError for the files in `denied` (files
\* the process may not delete): the comprehension ends at the first of them,
\* and os.listdir gives the files in no particular order, so any of the
\* other files may be gone by then; the set of the outcomes
RemoveFilesDenied(files, extensions, denied) ==
    LET matching == {f \in DOMAIN files : \E x \in extensions : EndsWith(f, x)}
    IN IF matching \cap denied = {}
       THEN {[data |-> RemoveFiles(files, extensions), res |-> Ok(<<>>)]}
       ELSE {[data |-> [name \in DOMAIN files \ gone |-> files[name]],
              res |-> Raise("OSError")] : gone \in SUBSET (matching \ denied)}

(***************************************************************************)
(* CSVBackend: one line "isoformat,json" per sample                        *)
(***************************************************************************)
\* datetime.isoformat(): 'YYYY-MM-DDTHH:MM:SS.mmmmmm', or, when the microsecond
\* is 0, 'YYYY-MM-DDTHH:MM:SS'.  The text is modelled by its seconds and its
\* optional fraction.
isoformat(t) ==
    [sec |-> t \div MICROS,
     frac |-> IF t % MICROS = 0 THEN None ELSE Some(t % MICROS)]

\* datetime.strptime(text, '%Y-%m-%dT%H:%M:%S.%f'): a text without the
\* fraction does not match the format
strptime(text) ==
    IF text.frac = None THEN Raise("ValueError")
    ELSE Ok(text.sec * MICROS + text.frac[1])

\* json.dumps(value): the JSON text, modelled by the JSON document it spells.
\* A list and a tuple both become an array.
json_dumps(value) ==
    CASE value.ty = "int" -> [j |-> "integer", n |-> value.n, e |-> 0, xs |-> <<>>]
      [] value.ty = "float" -> [j |-> "real", n |-> value.n, e |-> value.e, xs |-> <<>>]
      [] value.ty = "str" -> [j |-> "string", n |-> 0, e |-> 0, xs |-> value.xs]
      [] OTHER -> [j |-> "array", n |-> 0, e |-> 0, xs |-> value.xs]

\* json.loads(text): an array is read as a list, a string as unicode (equal to
\* the str of the same characters)
json_loads(text) ==
    CASE text.j = "integer" -> PyInt(text.n)
      [] text.j = "real" -> PyFloat(text.n, text.e)
      [] text.j = "string" -> PyStr(text.xs)
      [] OTHER -> PyList(text.xs)

\* CSVBackend.signals()
CSVBackend_signals(files) ==
    {SubSeq(f, 1, Len(f) - 4) : f \in {g \in DOMAIN files : EndsWith(g, ExtCSV)}}

\* CSVBackend.set(key, value); c[1] is the reading of now()
CSVBackend_set(files, key, value, c) ==
    Outcome(AppendFile(files, key \o ExtCSV,
                       [t |-> isoformat(c[1]), v |-> json_dumps(value)]),
            Ok(<<>>), 1)

\* the range loop of CSVBackend.get: the lines parsed so far, or the error
RECURSIVE CSVScan(_, _, _)
CSVScan(lines, start, end) ==
    IF lines = <<>> THEN Ok(<<>>)
    ELSE LET rest == CSVScan(SubSeq(lines, 1, Len(lines) - 1), start, end)
             line == lines[Len(lines)]
             t == strptime(line.t)
         IN IF rest.kind # "ok" THEN rest
            ELSE IF t.kind # "ok" THEN t
            ELSE IF start <= t.val /\ t.val <= end
            THEN Ok(Append(rest.val, <<t.val, json_loads(line.v)>>))
            ELSE rest

\* CSVBackend.get(signal, start, end, limit)
CSVBackend_get(files, signal, start, end, limit) ==
    IF signal \notin CSVBackend_signals(files) THEN Outcome(files, Ok(<<>>), 0)
    ELSE LET lines == files[signal \o ExtCSV]
         IN IF start # None /\ end # None
            THEN LET result == CSVScan(lines, start[1], end[1])
                 IN IF result.kind # "ok" THEN Outcome(files, result, 0)
                    ELSE Outcome(files, Ok(Decimate(result.val, limit)), 0)
            ELSE IF lines = <<>> THEN Outcome(files, Raise("UnboundLocalError"), 0)
            ELSE LET line == lines[Len(lines)]
                     t == strptime(line.t)
                 IN IF t.kind # "ok" THEN Outcome(files, t, 0)
                    ELSE Outcome(files, Ok(<<<<t.val, json_loads(line.v)>>>>), 0)

\* CSVBackend.clear()
CSVBackend_clear(files) == RemoveFiles(files, {ExtCSV})

(***************************************************************************)
(* BinaryBackend: <key>.TIME holds 8-byte tick counts, <key>.VALUE holds   *)
(* 4-byte floats.  A file is modelled by the sequence of its records.      *)
(***************************************************************************)
\* ticks (100 ns) in a microsecond: d.microseconds * 10
TICKS_PER_MICRO == 10
\* distance between neighbouring doubles near the tick count of a present-day
\* date (2^59 <= ticks < 2^60): to_ticks adds in double precision
TICK_ULP == 128
\* width of the significand of a 4-byte float: Struct('f')
FLOAT_MANT_BITS == 24
\* largest binary exponent of a 4-byte float: Struct('f')
FLOAT_MAX_EXP == 127

\* to_ticks(date): d.days * 864e9 + d.seconds * 1e7 are multiples of TICK_ULP
\* and add exactly; adding d.microseconds * 10 rounds the sum to the nearest
\* multiple of TICK_ULP, halves to the even multiple.  Ticks are counted from
\* the model's origin of time.
to_ticks(date) ==
    LET sec == date \div MICROS
        x == (date % MICROS) * TICKS_PER_MICRO
        q == x \div TICK_ULP
        r == x % TICK_ULP
        up == \/ 2 * r > TICK_ULP
              \/ 2 * r = TICK_ULP /\ (q + sec) % 2 = 1
    IN sec * MICROS * TICKS_PER_MICRO + TICK_ULP * (IF up THEN q + 1 ELSE q)

\* to_date(ticks): datetime.min + timedelta(microseconds=ticks / 10)
to_date(ticks) == ticks \div TICKS_PER_MICRO

\* positive infinity, what an out-of-range double becomes as a 4-byte float
PyInf == [ty |-> "inf", n |-> 1, e |-> 0, xs |-> <<>>]

\* Struct('f').unpack(Struct('f').pack(x)): x rounded to a 24-bit significand
\* (halves to even); Struct('f') is the native format, which stores an
\* out-of-range double as infinity without raising
pack_f(x) ==
    LET len == BitLength(Abs(x.n))
        shift == len - FLOAT_MANT_BITS
        q == Abs(x.n) \div Pow2(shift)
        r == Abs(x.n) % Pow2(shift)
        up == \/ 2 * r > Pow2(shift)
              \/ 2 * r = Pow2(shift) /\ q % 2 = 1
        rounded == IF shift <= 0 THEN x
                   ELSE Normalize((IF x.n < 0 THEN -1 ELSE 1) * (IF up THEN q + 1 ELSE q),
                                  x.e + shift)
    IN IF x.ty = "inf" \/ x.n = 0 THEN x
       ELSE IF rounded.e + BitLength(Abs(rounded.n)) - 1 > FLOAT_MAX_EXP THEN PyInf
       ELSE rounded

\* BinaryBackend.signals(): f.rstrip('.VALUE') strips every trailing character
\* that is one of . V A L U E
BinaryBackend_signals(files) ==
    {RStrip(f, ExtVALUE) : f \in {g \in DOMAIN files : EndsWith(g, ExtVALUE)}}

\* 'cannot convert %s to float' % value: a tuple on the right of % is taken as
\* the argument list, so a tuple of other than one element raises TypeError
BinaryBackend_set_error(value) ==
    IF value.ty = "tuple" /\ Len(value.xs) # 1 THEN Raise("TypeError")
    ELSE Raise("BackendError")

\* BinaryBackend.set converting the value after the timestamp is written
\* (float(value) moved below times.write(t))
BinaryBackend_set_TimeFirst(files, key, value, c) ==
    LET x == float(value)
        opened == AppendFile(files, key \o ExtTIME, to_ticks(c[1]))
    IN IF x.kind # "ok"
       THEN Outcome(TouchFile(opened, key \o ExtVALUE),
                    BinaryBackend_set_error(value), 1)
       ELSE Outcome(AppendFile(opened, key \o ExtVALUE, pack_f(x.val)),
                    Ok(<<>>), 1)

\* BinaryBackend.set(key, value); c[1] is the reading of now()
BinaryBackend_set(files, key, value, c) ==
    LET x == float(value)
    IN IF x.kind # "ok" THEN Outcome(files, BinaryBackend_set_error(value), 0)
       ELSE LET opened == AppendFile(files, key \o ExtTIME, to_ticks(c[1]))
            IN Outcome(AppendFile(opened, key \o ExtVALUE, pack_f(x.val)),
                       Ok(<<>>), 1)

\* the read loop of BinaryBackend.get: the records paired until either file
\* runs out
BinaryPairs(times, values) ==
    [i \in 1..(IF Len(times) < Len(values) THEN Len(times) ELSE Len(values)) |->
        <<to_date(times[i]), values[i]>>]

\* BinaryBackend.get(signal, start, end, limit)
BinaryBackend_get(files, signal, start, end, limit) ==
    IF signal \notin BinaryBackend_signals(files) THEN Outcome(files, Ok(<<>>), 0)
    ELSE IF signal \o ExtTIME \notin DOMAIN files
              \/ signal \o ExtVALUE \notin DOMAIN files
    THEN Outcome(files, Raise("IOError"), 0)
    ELSE LET pairs == BinaryPairs(files[signal \o ExtTIME], files[signal \o ExtVALUE])
         IN IF start # None /\ end # None
            THEN Outcome(files,
                         Ok(Decimate(InRange(pairs, start[1], end[1]), limit)), 0)
            ELSE IF pairs = <<>> THEN Outcome(files, Raise("UnboundLocalError"), 0)
            ELSE Outcome(files, Ok(<<pairs[Len(pairs)]>>), 0)

\* BinaryBackend.clear()
BinaryBackend_clear(files) ==
    RemoveFiles(files, {ExtTIME, ExtVALUE})

(***************************************************************************)
(* GlueBackend over a list of members.  The members are named             *)
(* "memory", "binary" and "csv"; `world` holds the data of all of them:    *)
(* world.mem is MemoryBackend._state, world.fs the directory of the file   *)
(* members.                                                               *)
(***************************************************************************)
World(mem, files) == [mem |-> mem, fs |-> files]

\* the readings of the clock left after the first k
Later(c, k) == SubSeq(c, k + 1, Len(c))

\* the outcome o of a MemoryBackend call, of a file backend call, as an
\* outcome on the data of all backends
InMemory(o, world) == Outcome(World(o.data, world.fs), o.res, o.used)
InFiles(o, world) == Outcome(World(world.mem, o.data), o.res, o.used)

\* b.set(key, value) for the member b
Backend_set(b, world, key, value, c) ==
    CASE b = "memory" ->
            InMemory(MemoryBackend_set(world.mem, key, value, c), world)
      [] b = "binary" ->
            InFiles(BinaryBackend_set(world.fs, key, value, c), world)
      [] b = "csv" ->
            InFiles(CSVBackend_set(world.fs, key, value, c), world)

\* b.get(signal, start, end, limit) for the member b
Backend_get(b, world, signal, start, end, limit, c) ==
    CASE b = "memory" ->
            InMemory(MemoryBackend_get(world.mem, signal, start, end, limit, c),
                     world)
      [] b = "binary" ->
            InFiles(BinaryBackend_get(world.fs, signal, start, end, limit),
                    world)
      [] b = "csv" ->
            InFiles(CSVBackend_get(world.fs, signal, start, end, limit), world)

\* b.signals() for the member b
Backend_signals(b, world) ==
    CASE b = "memory" -> MemoryBackend_signals(world.mem)
      [] b = "binary" -> BinaryBackend_signals(world.fs)
      [] b = "csv" -> CSVBackend_signals(world.fs)

\* b.clear() for the member b
Backend_clear(b, world) ==
    CASE b = "memory" -> World(MemoryBackend_clear(world.mem), world.fs)
      [] b = "binary" -> World(world.mem, BinaryBackend_clear(world.fs))
      [] b = "csv" -> World(world.mem, CSVBackend_clear(world.fs))

\* what a GlueBackend call gives back: as Outcome, with the member calls it
\* made, in order, each with its result
GlueOutcome(data, res, used, calls) ==
    [data |-> data, res |-> res, used |-> used, calls |-> calls]

\* the loop of GlueBackend.set from member i on (GlueSetLoop), and its body
\* once b.set has given the outcome o (GlueSetStep): BackendError is
\* swallowed, any other exception leaves the loop and the call
RECURSIVE GlueSetLoop(_, _, _, _, _, _, _, _, _)
RECURSIVE GlueSetStep(_, _, _, _, _, _, _, _, _)
GlueSetStep(members, i, key, value, c, used, at_least_one, calls, o) ==
    IF o.res.kind = "ok"
    THEN GlueSetLoop(members, i + 1, o.data, key, value, c, used + o.used,
                     TRUE, Append(calls, [b |-> members[i], res |-> o.res]))
    ELSE IF o.res.kind = "BackendError"
    THEN GlueSetLoop(members, i + 1, o.data, key, value, c, used + o.used,
                     at_least_one,
                     Append(calls, [b |-> members[i], res |-> o.res]))
    ELSE GlueOutcome(o.data, o.res, used + o.used,
                     Append(calls, [b |-> members[i], res |-> o.res]))

GlueSetLoop(members, i, world, key, value, c, used, at_least_one, calls) ==
    IF i > Len(members)
    THEN GlueOutcome(world,
                     IF at_least_one THEN Ok(<<>>) ELSE Raise("BackendError"),
                     used, calls)
    ELSE GlueSetStep(members, i, key, value, c, used, at_least_one, calls,
                     Backend_set(members[i], world, key, value, Later(c, used)))

\* GlueBackend.set(key, value)
GlueBackend_set(members, world, key, value, c) ==
    GlueSetLoop(members, 1, world, key, value, c, 0, FALSE, <<>>)

\* the loop of GlueBackend.get from member i on (GlueGetLoop), and its body
\* once b.get has given the outcome o (GlueGetStep); `got` is the variable
\* got as the previous iteration left it: "unbound" before the first
\* iteration, "None" after a BackendError, "[]" after a member returned the
\* empty list
RECURSIVE GlueGetLoop(_, _, _, _, _, _, _, _, _, _, _)
RECURSIVE GlueGetStep(_, _, _, _, _, _, _, _, _, _)
GlueGetStep(members, i, signal, start, end, limit, c, used, calls, o) ==
    IF o.res.kind = "ok" /\ o.res.val = <<>>
    THEN GlueGetLoop(members, i + 1, o.data, signal, start, end, limit, c,
                     used + o.used, "[]",
                     Append(calls, [b |-> members[i], res |-> o.res]))
    ELSE IF o.res.kind = "BackendError"
    THEN GlueGetLoop(members, i + 1, o.data, signal, start, end, limit, c,
                     used + o.used, "None",
                     Append(calls, [b |-> members[i], res |-> o.res]))
    ELSE GlueOutcome(o.data, o.res, used + o.used,
                     Append(calls, [b |-> members[i], res |-> o.res]))

GlueGetLoop(members, i, world, signal, start, end, limit, c, used, got, calls) ==
    IF i > Len(members)
    THEN GlueOutcome(world,
                     IF got = "unbound" THEN Raise("UnboundLocalError")
                     ELSE IF got # "None" THEN Ok(<<>>)
                     ELSE Raise("BackendError"),
                     used, calls)
    ELSE GlueGetStep(members, i, signal, start, end, limit, c, used, calls,
                     Backend_get(members[i], world, signal, start, end, limit,
                                 Later(c, used)))

\* GlueBackend.get(signal, start, end, limit)
GlueBackend_get(members, world, signal, start, end, limit, c) ==
    GlueGetLoop(members, 1, world, signal, start, end, limit, c, 0, "unbound",
                <<>>)

\* GlueBackend.signals(): the union of the members' signals (sorted)
GlueBackend_signals(members, world) ==
    UNION {Backend_signals(members[i], world) : i \in 1..Len(members)}

\* GlueBackend.clear() when no member's clear() fails
RECURSIVE GlueBackend_clear(_, _)
GlueBackend_clear(members, world) ==
    IF members = <<>> THEN world
    ELSE GlueBackend_clear(Tail(members), Backend_clear(Head(members), world))

\* b.clear() for the member b when os.remove raises OSError for the files in
\* `denied`: the set of the outcomes, each with the data and the result
Backend_clear_denied(b, world, denied) ==
    CASE b = "memory" ->
            {[data |-> World(MemoryBackend_clear(world.mem), world.fs),
              res |-> Ok(<<>>)]}
      [] b = "binary" ->
            {[data |-> World(world.mem, o.data), res |-> o.res] :
                o \in RemoveFilesDenied(world.fs, {ExtTIME, ExtVALUE}, denied)}
      [] b = "csv" ->
            {[data |-> World(world.mem, o.data), res |-> o.res] :
                o \in RemoveFilesDenied(world.fs, {ExtCSV}, denied)}

\* the loop of GlueBackend.clear from member i on, when os.remove raises
\* OSError for the files in `denied`: the set of the outcomes, each with the
\* member calls made; an exception of b.clear() leaves the loop and the
\* call
RECURSIVE GlueClearLoop(_, _, _, _, _)
GlueClearStep(members, i, denied, calls, o) ==
    IF o.res.kind = "ok"
    THEN GlueClearLoop(members, i + 1, o.data, denied,
                       Append(calls, [b |-> members[i], res |-> o.res]))
    ELSE {GlueOutcome(o.data, o.res, 0,
                      Append(calls, [b |-> members[i], res |-> o.res]))}

GlueClearLoop(members, i, world, denied, calls) ==
    IF i > Len(members) THEN {GlueOutcome(world, Ok(<<>>), 0, calls)}
    ELSE UNION {GlueClearStep(members, i, denied, calls, o) :
                   o \in Backend_clear_denied(members[i], world, denied)}

\* GlueBackend.clear() when os.remove raises OSError for the files in
\* `denied`
GlueBackend_clear_denied(members, world, denied) ==
    GlueClearLoop(members, 1, world, denied, <<>>)

(***************************************************************************)
(* Tau: the query layer over one backend.  b names the backend ("memory",  *)
(* "csv", "binary" or "glue" over `members`).                              *)
(***************************************************************************)
\* the outcome of a GlueBackend call without the member calls
Plain(o) == Outcome(o.data, o.res, o.used)

\* self._backend.set(key, value)
Any_set(b, members, world, key, value, c) ==
    IF b = "glue" THEN Plain(GlueBackend_set(members, world, key, value, c))
    ELSE Backend_set(b, world, key, value, c)

\* self._backend.get(signal, start, end, limit)
Any_get(b, members, world, signal, start, end, limit, c) ==
    IF b = "glue"
    THEN Plain(GlueBackend_get(members, world, signal, start, end, limit, c))
    ELSE Backend_get(b, world, signal, start, end, limit, c)

\* Tau.signals()
Tau_signals(b, members, world) ==
    IF b = "glue" THEN GlueBackend_signals(members, world)
    ELSE Backend_signals(b, world)

\* Tau.clear()
Tau_clear(b, members, world) ==
    IF b = "glue" THEN GlueBackend_clear(members, world)
    ELSE Backend_clear(b, world)

\* Tau.set(keyvalues): items is keyvalues.items(), in the order the dict
\* gives them (Tau_set), and the body of its loop once self._backend.set has
\* given the outcome o (TauSetStep); the first exception ends the call
RECURSIVE Tau_set(_, _, _, _, _, _)
RECURSIVE TauSetStep(_, _, _, _, _, _)
\* the body of the loop passing over a BackendError (try: ... except
\* BackendError: pass)
TauSetStep_Swallow(b, members, items, c, used, o) ==
    IF o.res.kind \in {"ok", "BackendError"}
    THEN Tau_set(b, members, o.data, Tail(items), c, used + o.used)
    ELSE Outcome(o.data, o.res, used + o.used)

TauSetStep(b, members, items, c, used, o) ==
    IF o.res.kind = "ok"
    THEN Tau_set(b, members, o.data, Tail(items), c, used + o.used)
    ELSE Outcome(o.data, o.res, used + o.used)

Tau_set(b, members, world, items, c, used) ==
    IF items = <<>> THEN Outcome(world, Ok(<<>>), used)
    ELSE TauSetStep(b, members, items, c, used,
                    Any_set(b, members, world, items[1][1], items[1][2],
                            Later(c, used)))

\* Tau._is_pattern(s)
is_pattern(s) ==
    \E i \in 1..Len(s) : s[i] \in {"*", "?", "[", "]"}

\* fnmatch: the index in pat of the ']' that closes the '[' at pat[1], 0 if
\* none closes it (a '!' and then a ']' right after the '[' do not close it)
RECURSIVE ClassScan(_, _)
ClassScan(pat, j) ==
    IF j > Len(pat) THEN 0
    ELSE IF pat[j] = "]" THEN j
    ELSE ClassScan(pat, j + 1)

ClassEnd(pat) ==
    LET j1 == IF 2 <= Len(pat) /\ pat[2] = "!" THEN 3 ELSE 2
        j2 == IF j1 <= Len(pat) /\ pat[j1] = "]" THEN j1 + 1 ELSE j1
    IN ClassScan(pat, j2)

\* the character ch is in the class [stuff] ([!stuff]: is not in it); the
\* classes tried hold single characters, no range x-y
InClass(ch, stuff) ==
    IF stuff[1] = "!"
    THEN \A i \in 2..Len(stuff) : stuff[i] # ch
    ELSE \E i \in 1..Len(stuff) : stuff[i] = ch

\* fnmatchcase(name, pat): '*' matches any run of characters, '?' any one
\* character, [seq] one character of seq, [!seq] one character not of seq,
\* a '[' that nothing closes and every other character match themselves
RECURSIVE fnmatchcase(_, _)
fnmatchcase(name, pat) ==
    LET rest == Tail(pat)
    IN IF pat = <<>> THEN name = <<>>
       ELSE IF pat[1] = "*"
       THEN \E k \in 0..Len(name) :
                fnmatchcase(SubSeq(name, k + 1, Len(name)), rest)
       ELSE IF name = <<>> THEN FALSE
       ELSE IF pat[1] = "?" THEN fnmatchcase(Tail(name), rest)
       ELSE IF pat[1] = "[" /\ ClassEnd(pat) # 0
       THEN /\ InClass(name[1], SubSeq(pat, 2, ClassEnd(pat) - 1))
            /\ fnmatchcase(Tail(name), SubSeq(pat, ClassEnd(pat) + 1, Len(pat)))
       ELSE name[1] = pat[1] /\ fnmatchcase(Tail(name), rest)

\* _matching_signals that leaves out the names given directly
matching_signals_PatternsOnly(b, members, world, arguments) ==
    {s \in Tau_signals(b, members, world) :
        \E i \in 1..Len(arguments) :
            is_pattern(arguments[i]) /\ fnmatchcase(s, arguments[i])}

\* Tau._matching_signals(*arg)
matching_signals(b, members, world, arguments) ==
    LET patterns == {arguments[i] : i \in {j \in 1..Len(arguments) :
                                            is_pattern(arguments[j])}}
        signals == {arguments[i] : i \in {j \in 1..Len(arguments) :
                                            ~is_pattern(arguments[j])}}
    IN {s \in Tau_signals(b, members, world) :
            \E pat \in patterns : fnmatchcase(s, pat)} \cup signals

\* the keyword options of Tau.get; period, start, end and limit are absent
\* (None) or given; period is given in microseconds
Options(period, start, end, limit, timestamps) ==
    [period |-> period, start |-> start, end |-> end, limit |-> limit,
     timestamps |-> timestamps]

\* the value Tau.get gives for one signal: None, a value, a sample [t, v], a
\* list of values or a list of samples; xs holds the value, the sample, or
\* the elements of the list
Entry(shape, xs) == [shape |-> shape, xs |-> xs]

\* the entry made of what backend.get returned
Shaped(ranged, timestamps, got) ==
    IF ranged
    THEN IF timestamps THEN Entry("samples", got)
         ELSE Entry("values", [i \in 1..Len(got) |-> got[i][2]])
    ELSE IF got = <<>> THEN Entry("None", <<>>)
    ELSE IF timestamps THEN Entry("sample", <<got[1]>>)
    ELSE Entry("value", <<got[1][2]>>)

\* the dict(... for s in signals) of Tau.get: order is the set `signals` as
\* the iteration gives it (TauGetLoop), and the body of the loop once
\* self._backend.get has given the outcome o (TauGetStep); the first
\* exception ends the call
RECURSIVE TauGetLoop(_, _, _, _, _, _, _, _, _, _, _)
RECURSIVE TauGetStep(_, _, _, _, _, _, _, _, _, _, _)
TauGetStep(b, members, order, start, end, limit, stamps, c, used, match, o) ==
    IF o.res.kind = "ok"
    THEN TauGetLoop(b, members, o.data, Tail(order), start, end, limit,
                    stamps, c, used + o.used,
                    (order[1] :> Shaped(start # None, stamps, o.res.val))
                        @@ match)
    ELSE Outcome(o.data, o.res, used + o.used)

TauGetLoop(b, members, world, order, start, end, limit, stamps, c, used, match) ==
    IF order = <<>> THEN Outcome(world, Ok(match), used)
    ELSE TauGetStep(b, members, order, start, end, limit, stamps, c, used,
                    match,
                    Any_get(b, members, world, order[1], start, end, limit,
                            Later(c, used)))

\* the end of Tau.get unwrapping whenever the mapping holds one entry
\* (len(match) == 1 for len(arguments) == 1 and not a pattern)
Unwrap_SingleEntry(arguments, o) ==
    IF o.res.kind # "ok" THEN o
    ELSE Outcome(o.data,
                 Ok([unwrapped |-> Cardinality(DOMAIN o.res.val) = 1,
                     match |-> o.res.val]),
                 o.used)

\* the end of Tau.get: o is the outcome with the mapping built; the result
\* is ok with [unwrapped, match], the mapping and whether
\* match[arguments[0]] is returned in its place
Unwrap(arguments, o) ==
    IF o.res.kind # "ok" THEN o
    ELSE Outcome(o.data,
                 Ok([unwrapped |-> Len(arguments) = 1
                                     /\ ~is_pattern(arguments[1]),
                     match |-> o.res.val]),
                 o.used)

\* what Tau.get returns, val being the value of its ok result:
\* match[arguments[0]], or match
Returned(arguments, val) ==
    IF val.unwrapped THEN val.match[arguments[1]] ELSE val.match

\* the range Tau.get asks the backend for: [start, end, limit], with used,
\* the readings of now() it took, and found, which is FALSE when
\* options['end'] or options['start'] is missing (KeyError)
TauRange(options, c) ==
    IF options.period = None /\ options.start = None /\ options.end = None
    THEN [start |-> None, end |-> None, limit |-> None, used |-> 0,
          found |-> TRUE]
    ELSE IF options.period # None
    THEN [start |-> Some(c[1] - options.period[1]), end |-> Some(c[1]),
          limit |-> options.limit, used |-> 1, found |-> TRUE]
    ELSE [start |-> options.start, end |-> options.end,
          limit |-> options.limit, used |-> 0,
          found |-> options.end # None /\ options.start # None]

\* Tau.get(*arguments, **options) asking for the range r
TauGetRange(b, members, world, arguments, options, order, c, r) ==
    IF ~r.found THEN Outcome(world, Raise("KeyError"), 0)
    ELSE Unwrap(arguments,
                TauGetLoop(b, members, world, order, r.start, r.end, r.limit,
                           options.timestamps, c, r.used, <<>>))

\* Tau.get(*arguments, **options) when the set `signals` is iterated in the
\* given order
TauGetIn(b, members, world, arguments, options, order, c) ==
    TauGetRange(b, members, world, arguments, options, order, c,
                TauRange(options, c))

\* the orders in which a set can be iterated
Orders(S) ==
    {f \in [1..Cardinality(S) -> S] :
        \A i, j \in 1..Cardinality(S) : f[i] = f[j] => i = j}

\* Tau.get(*arguments, **options): the outcomes it can have, one for each
\* order in which the set signals = self._matching_signals(*arguments) can
\* be iterated
Tau_get(b, members, world, arguments, options, c) ==
    {TauGetIn(b, members, world, arguments, options, order, c) :
        order \in Orders(matching_signals(b, members, world, arguments))}

(***************************************************************************)
(* The inputs tried                                                        *)
(***************************************************************************)
\* signal names: 'a' and 'bA' (a name that ends in a character of '.VALUE')
Names == {<<"a">>, <<"b", "A">>}

\* the value None (of a call that takes no value)
PyNone == [ty |-> "None", n |-> 0, e |-> 0, xs |-> <<>>]

\* values written: 1, 'I', '1', [2, 3], (2, 3), 16777217 (2^24 + 1), and
\* 2.0 ** 128 (the least power of two beyond the range of a 4-byte float)
MemoryValues == {PyInt(1), PyStr(<<"I">>)}
CSVValues == {PyInt(1), PyList(<<2, 3>>)}
BinaryValues ==
    {PyInt(1), PyStr(<<"1">>), PyStr(<<"I">>), PyInt(16777217),
     PyFloat(1, FLOAT_MAX_EXP + 1), PyTuple(<<2, 3>>)}
GlueValues == {PyInt(1), PyStr(<<"I">>), PyTuple(<<2, 3>>)}

\* the (start, end, limit) of a latest-value get: no range, or only one end
\* of it (the present time)
LatestArgs ==
    {<<None, None, None>>, <<Some(clock), None, None>>, <<None, Some(clock), None>>}

\* the (start, end, limit) of a range get: start <= end, with or without limit
RangeArgs ==
    {<<Some(r[1]), Some(r[2]), l>> :
        r \in {p \in Instants \X Instants : p[1] <= p[2]}, l \in Opt(1..MaxLimit)}

GetArgs == LatestArgs \cup RangeArgs

\* number of samples held in MemoryBackend._state
RECURSIVE SumLen(_, _)
SumLen(f, keys) ==
    IF keys = {} THEN 0
    ELSE LET k == CHOOSE x \in keys : TRUE
         IN Len(f[k]) + SumLen(f, keys \ {k})

Samples(f) == SumLen(f, DOMAIN f)

\* the record of the call made last: the backend, the operation, the signal
\* and the value given, whether a range was asked for, the result, and for a
\* GlueBackend call the member calls it made
Call(backend, op, signal, value, range, res, calls) ==
    [backend |-> backend, op |-> op, signal |-> signal, value |-> value,
     range |-> range, res |-> res, calls |-> calls]

IsRange(a) == a[1] # None /\ a[2] # None

(***************************************************************************)
(* The state machine.  `under` names the backend that was constructed:     *)
(* "memory", "csv", "binary", or "glue", a GlueBackend over the members    *)
(* `backends` (which can also be called directly, as its callers hold      *)
(* them).  clock is the time, mem_state is MemoryBackend._state, fs the    *)
(* directory of the log files, last the call made last.                    *)
(***************************************************************************)
InitWith(configs) ==
    /\ \E cfg \in configs : under = cfg[1] /\ backends = cfg[2]
    /\ clock = 0
    /\ mem_state = <<>>
    /\ fs = <<>>
    /\ last = Call("", "init", <<>>, PyNone, FALSE, Ok(<<>>), <<>>)

\* the backend b can be called: it was constructed alone, or is a member
Has(b) == under = b \/ (under = "glue" /\ \E i \in 1..Len(backends) : backends[i] = b)

\* the data of all backends, as the member calls take it
Here == World(mem_state, fs)

\* the clock after a call that took the first k readings of c
After(c, k) == IF k = 0 THEN clock ELSE c[k]

\* number of records in the files named *.ext
RECURSIVE SumRecords(_, _)
SumRecords(files, names) ==
    IF names = {} THEN 0
    ELSE LET f == CHOOSE x \in names : TRUE
         IN Len(files[f]) + SumRecords(files, names \ {f})

Records(files, ext) == SumRecords(files, {f \in DOMAIN files : EndsWith(f, ext)})

\* time passes between two calls (sleep)
Tick ==
    /\ \E t \in Instants : t > clock /\ clock' = t
    /\ last' = Call("", "sleep", <<>>, PyNone, FALSE, Ok(<<>>), <<>>)
    /\ UNCHANGED <<under, backends, mem_state, fs>>

MemSet ==
    \E key \in Names, value \in MemoryValues, c \in Readings(clock, 2) :
        LET o == MemoryBackend_set(mem_state, key, value, c)
        IN /\ under = "memory"
           /\ Samples(mem_state) < MaxMemSamples
           /\ mem_state' = o.data
           /\ clock' = After(c, o.used)
           /\ last' = Call("memory", "set", key, value, FALSE, o.res, <<>>)
           /\ UNCHANGED <<under, backends, fs>>

MemGet ==
    \E signal \in Names, a \in GetArgs, c \in Readings(clock, 2) :
        LET o == MemoryBackend_get(mem_state, signal, a[1], a[2], a[3], c)
        IN /\ Has("memory")
           /\ mem_state' = o.data
           /\ clock' = After(c, o.used)
           /\ last' = Call("memory", "get", signal, PyNone, IsRange(a), o.res, <<>>)
           /\ UNCHANGED <<under, backends, fs>>

MemSignals ==
    /\ Has("memory")
    /\ last' = Call("memory", "signals", <<>>, PyNone, FALSE,
                    Ok(MemoryBackend_signals(mem_state)), <<>>)
    /\ UNCHANGED <<under, backends, clock, mem_state, fs>>

MemClear ==
    /\ Has("memory")
    /\ mem_state' = MemoryBackend_clear(mem_state)
    /\ last' = Call("memory", "clear", <<>>, PyNone, FALSE, Ok(<<>>), <<>>)
    /\ UNCHANGED <<under, backends, clock, fs>>

CSVSet ==
    \E key \in Names, value \in CSVValues, c \in Readings(clock, 1) :
        LET o == CSVBackend_set(fs, key, value, c)
        IN /\ under = "csv"
           /\ Records(fs, ExtCSV) < MaxFileRecords
           /\ fs' = o.data
           /\ clock' = After(c, o.used)
           /\ last' = Call("csv", "set", key, value, FALSE, o.res, <<>>)
           /\ UNCHANGED <<under, backends, mem_state>>

CSVGet ==
    \E signal \in Names, a \in GetArgs :
        LET o == CSVBackend_get(fs, signal, a[1], a[2], a[3])
        IN /\ Has("csv")
           /\ fs' = o.data
           /\ last' = Call("csv", "get", signal, PyNone, IsRange(a), o.res, <<>>)
           /\ UNCHANGED <<under, backends, clock, mem_state>>

CSVSignals ==
    /\ Has("csv")
    /\ last' = Call("csv", "signals", <<>>, PyNone, FALSE,
                    Ok(CSVBackend_signals(fs)), <<>>)
    /\ UNCHANGED <<under, backends, clock, mem_state, fs>>

CSVClear ==
    /\ Has("csv")
    /\ fs' = CSVBackend_clear(fs)
    /\ last' = Call("csv", "clear", <<>>, PyNone, FALSE, Ok(<<>>), <<>>)
    /\ UNCHANGED <<under, backends, clock, mem_state>>

BinarySet ==
    \E key \in Names, value \in BinaryValues, c \in Readings(clock, 1) :
        LET o == BinaryBackend_set(fs, key, value, c)
        IN /\ under = "binary"
           /\ Records(fs, ExtTIME) < MaxFileRecords
           /\ fs' = o.data
           /\ clock' = After(c, o.used)
           /\ last' = Call("binary", "set", key, value, FALSE, o.res, <<>>)
           /\ UNCHANGED <<under, backends, mem_state>>

BinaryGet ==
    \E signal \in Names, a \in GetArgs :
        LET o == BinaryBackend_get(fs, signal, a[1], a[2], a[3])
        IN /\ Has("binary")
           /\ fs' = o.data
           /\ last' = Call("binary", "get", signal, PyNone, IsRange(a), o.res, <<>>)
           /\ UNCHANGED <<under, backends, clock, mem_state>>

BinarySignals ==
    /\ Has("binary")
    /\ last' = Call("binary", "signals", <<>>, PyNone, FALSE,
                    Ok(BinaryBackend_signals(fs)), <<>>)
    /\ UNCHANGED <<under, backends, clock, mem_state, fs>>

BinaryClear ==
    /\ Has("binary")
    /\ fs' = BinaryBackend_clear(fs)
    /\ last' = Call("binary", "clear", <<>>, PyNone, FALSE, Ok(<<>>), <<>>)
    /\ UNCHANGED <<under, backends, clock, mem_state>>

NextMemory == Tick \/ MemSet \/ MemGet \/ MemSignals \/ MemClear

\* a MemoryBackend(1) alone
SpecMemory == InitWith({<<"memory", <<>>>>}) /\ [][NextMemory]_vars

NextBackends ==
    \/ Tick
    \/ MemSet \/ MemGet \/ MemSignals \/ MemClear
    \/ CSVSet \/ CSVGet \/ CSVSignals \/ CSVClear
    \/ BinarySet \/ BinaryGet \/ BinarySignals \/ BinaryClear

\* one of the three storing backends alone
SpecBackends ==
    InitWith({<<"memory", <<>>>>, <<"csv", <<>>>>, <<"binary", <<>>>>})
        /\ [][NextBackends]_vars

\* touch key.csv key.TIME key.VALUE: the log files of a signal are made,
\* empty, by another program
Touch ==
    \E key \in Names :
        /\ under \in {"csv", "binary"}
        /\ fs' = TouchFile(TouchFile(TouchFile(fs, key \o ExtCSV),
                                      key \o ExtTIME), key \o ExtVALUE)
        /\ last' = Call("", "touch", key, PyNone, FALSE, Ok(<<>>), <<>>)
        /\ UNCHANGED <<under, backends, clock, mem_state>>

NextFiles ==
    \/ Touch
    \/ CSVSet \/ CSVGet \/ CSVSignals \/ CSVClear
    \/ BinarySet \/ BinaryGet \/ BinarySignals \/ BinaryClear

\* a CSVBackend or a BinaryBackend alone, over a directory in which another
\* program makes files; all calls are made at the same reading of the clock
SpecFiles ==
    InitWith({<<"csv", <<>>>>, <<"binary", <<>>>>}) /\ [][NextFiles]_vars

\* the member lists a GlueBackend is constructed over: none, BinaryBackend
\* alone, (Memory, CSV), (Memory, Binary, CSV)
GlueMembers ==
    {<<>>, <<"binary">>, <<"memory", "csv">>, <<"memory", "binary", "csv">>}

\* every member holds fewer samples than the model lets a GlueBackend write
GlueRoom ==
    /\ Samples(mem_state) < MaxGlueRecords
    /\ Records(fs, ExtCSV) < MaxGlueRecords
    /\ Records(fs, ExtTIME) < MaxGlueRecords

GlueSet ==
    \E key \in Names, value \in GlueValues, c \in Readings(clock, 4) :
        LET o == GlueBackend_set(backends, Here, key, value, c)
        IN /\ under = "glue"
           /\ GlueRoom
           /\ mem_state' = o.data.mem
           /\ fs' = o.data.fs
           /\ clock' = After(c, o.used)
           /\ last' = Call("glue", "set", key, value, FALSE, o.res, o.calls)
           /\ UNCHANGED <<under, backends>>

\* the (start, end, limit) of a get through a GlueBackend: a latest-value
\* get, or a range get without limit
GlueGetArgs == LatestArgs \cup {a \in RangeArgs : a[3] = None}

GlueGet ==
    \E signal \in Names, a \in GlueGetArgs, c \in Readings(clock, 2) :
        LET o == GlueBackend_get(backends, Here, signal, a[1], a[2], a[3], c)
        IN /\ under = "glue"
           /\ mem_state' = o.data.mem
           /\ fs' = o.data.fs
           /\ clock' = After(c, o.used)
           /\ last' = Call("glue", "get", signal, PyNone, IsRange(a), o.res,
                           o.calls)
           /\ UNCHANGED <<under, backends>>

GlueSignals ==
    /\ under = "glue"
    /\ last' = Call("glue", "signals", <<>>, PyNone, FALSE,
                    Ok(GlueBackend_signals(backends, Here)), <<>>)
    /\ UNCHANGED <<under, backends, clock, mem_state, fs>>

\* the files os.remove may be denied: none, the logs of the BinaryBackend,
\* the logs of the CSVBackend
Denied(files) ==
    {{}, {f \in DOMAIN files : EndsWith(f, ExtTIME) \/ EndsWith(f, ExtVALUE)},
     {f \in DOMAIN files : EndsWith(f, ExtCSV)}}

GlueClear ==
    \E denied \in Denied(fs) :
        \E o \in GlueBackend_clear_denied(backends, Here, denied) :
            /\ under = "glue"
            /\ mem_state' = o.data.mem
            /\ fs' = o.data.fs
            /\ last' = Call("glue", "clear", <<>>, PyNone, FALSE, o.res, o.calls)
            /\ UNCHANGED <<under, backends, clock>>

NextGlue ==
    \/ Tick
    \/ GlueSet \/ GlueGet \/ GlueSignals \/ GlueClear
    \/ MemClear \/ CSVClear \/ BinaryClear

\* a GlueBackend over one of the member lists; the members stay in the hands
\* of the caller, who clears them directly
SpecGlue == InitWith({<<"glue", m>> : m \in GlueMembers}) /\ [][NextGlue]_vars

\* the names passed to Tau.get: 'a' and 'bA' (written by the model), 'c'
\* (never written), and the patterns '*', '?', '?a', '?A', '[ab]', 'b[!a]',
\* 'a]' and '[a' (a '[' that nothing closes)
TauStrings ==
    {<<"a">>, <<"b", "A">>, <<"c">>, <<"*">>, <<"?">>, <<"?", "a">>,
     <<"?", "A">>, <<"[", "a", "b", "]">>, <<"b", "[", "!", "a", "]">>,
     <<"a", "]">>, <<"[", "a">>}

\* the *arguments of Tau.get: none, one, or one of a few pairs
TauArguments ==
    {<<>>} \cup {<<x>> : x \in TauStrings}
        \cup {<<<<"a">>, <<"a">>>>, <<<<"a">>, <<"*">>>>, <<<<"*">>, <<"?">>>>,
              <<<<"[", "a", "b", "]">>, <<"b", "A">>>>,
              <<<<"c">>, <<"?", "A">>>>, <<<<"?", "a">>, <<"[", "a">>>>,
              <<<<"a">>, <<"b", "A">>>>}

\* the **options of Tau.get: none, timestamps, period = 0.5, start and end
\* with limit and timestamps, start without end
TauOptions ==
    {Options(None, None, None, None, FALSE),
     Options(None, None, None, None, TRUE),
     Options(Some(500000), None, None, None, FALSE),
     Options(None, Some(500000), Some(1000000), Some(1), TRUE),
     Options(None, Some(0), None, None, FALSE)}

\* the dicts passed to Tau.set, as their items(): one or two keys
TauValues == {PyInt(1), PyStr(<<"I">>)}

TauItems ==
    {<<<<k, v>>>> : k \in Names, v \in TauValues}
        \cup {<<<<k[1], v[1]>>, <<k[2], v[2]>>>> :
                 k \in {p \in Names \X Names : p[1] # p[2]},
                 v \in TauValues \X TauValues}

\* the readings of datetime.now() during one Tau call: all at `from` (time
\* passes between the calls)
TauReadings(from) == {<<from, from, from, from, from>>}

\* the backend has room for the samples of a Tau.set of n keys
TauRoom(n) ==
    /\ Samples(mem_state) + n <= MaxMemSamples
    /\ Records(fs, ExtCSV) + n <= MaxFileRecords
    /\ Records(fs, ExtTIME) + n <= MaxFileRecords

TauSet ==
    \E items \in TauItems, c \in TauReadings(clock) :
        LET o == Tau_set(under, backends, Here, items, c, 0)
        IN /\ TauRoom(Len(items))
           /\ mem_state' = o.data.mem
           /\ fs' = o.data.fs
           /\ clock' = After(c, o.used)
           /\ last' = Call("tau", "set", <<>>, PyNone, FALSE, o.res, <<>>)
           /\ UNCHANGED <<under, backends>>

\* what `last` keeps of the result of a Tau.get: that it returned, or the
\* exception
Digest(res) == IF res.kind = "ok" THEN Ok(<<>>) ELSE res

TauGet ==
    \E arguments \in TauArguments, options \in TauOptions,
       c \in TauReadings(clock) :
        \E o \in Tau_get(under, backends, Here, arguments, options, c) :
            /\ mem_state' = o.data.mem
            /\ fs' = o.data.fs
            /\ clock' = After(c, o.used)
            /\ last' = Call("tau", "get", <<>>, PyNone, FALSE, Digest(o.res),
                            <<>>)
            /\ UNCHANGED <<under, backends>>

TauSignals ==
    /\ last' = Call("tau", "signals", <<>>, PyNone, FALSE,
                    Ok(Tau_signals(under, backends, Here)), <<>>)
    /\ UNCHANGED <<under, backends, clock, mem_state, fs>>

TauClear ==
    LET w == Tau_clear(under, backends, Here)
    IN /\ mem_state' = w.mem
       /\ fs' = w.fs
       /\ last' = Call("tau", "clear", <<>>, PyNone, FALSE, Ok(<<>>), <<>>)
       /\ UNCHANGED <<under, backends, clock>>

NextTau == Tick \/ TauSet \/ TauGet \/ TauSignals \/ TauClear

\* a Tau over one of the three storing backends
SpecTau ==
    InitWith({<<"memory", <<>>>>, <<"csv", <<>>>>, <<"binary", <<>>>>})
        /\ [][NextTau]_vars

\* every construction: a storing backend alone, or a GlueBackend
Init ==
    InitWith({<<"memory", <<>>>>, <<"csv", <<>>>>, <<"binary", <<>>>>}
                 \cup {<<"glue", m>> : m \in GlueMembers})

Next == NextBackends \/ NextFiles \/ NextGlue \/ NextTau

Spec == Init /\ [][Next]_vars

(***************************************************************************)
(* MemoryBackend: retention                                                *)
(***************************************************************************)
\* the retention window in microseconds
Window == cache_seconds * MICROS

\* the signal holds a sample younger than the window at time t
HasLive(signal, t) ==
    /\ signal \in DOMAIN mem_state
    /\ \E i \in 1..Len(mem_state[signal]) : t - mem_state[signal][i][1] < Window

\* C2: no get of MemoryBackend, latest-value or range, returns a sample that
\* is a window old or older when the get is made: every sample returned has
\* now - timestamp < window, now being the clock as the get ends
C2_NoExpiredSample ==
    (last.backend = "memory" /\ last.op = "get" /\ last.res.kind = "ok")
        => \A i \in 1..Len(last.res.val) : clock - last.res.val[i][1] < Window

\* C2: a get found the signal known and returned nothing, its samples having
\* reached the age of the window
C2_Witness ==
    /\ last.backend = "memory" /\ last.op = "get"
    /\ last.res = Ok(<<>>)
    /\ last.signal \in DOMAIN mem_state
    /\ clock >= Window

\* C3, as claimed: every range get whose start is earlier than now - window
\* fails with BackendError, whatever the signal holds
C3_Original ==
    \A signal \in Names, a \in RangeArgs, c \in Readings(clock, 2) :
        a[1][1] < c[1] - Window
            => MemoryBackend_get(mem_state, signal, a[1], a[2], a[3], c).res.kind
                   = "BackendError"

\* C3, amended: a range get whose start is earlier than now - window fails
\* with BackendError when the signal holds a sample younger than the window,
\* and returns the empty list when the signal is unknown or all its samples
\* have expired
C3_WindowError ==
    \A signal \in Names, a \in RangeArgs, c \in Readings(clock, 2) :
        a[1][1] < c[2] - Window
            => MemoryBackend_get(mem_state, signal, a[1], a[2], a[3], c).res
                   = IF HasLive(signal, c[1]) THEN Raise("BackendError")
                     ELSE Ok(<<>>)

\* C3: a range get has just failed, and the signal still holds a live sample
\* for which a range reaching back before the window is refused
C3_Witness ==
    /\ last.backend = "memory" /\ last.op = "get" /\ last.range
    /\ last.res.kind = "BackendError"
    /\ HasLive(last.signal, clock)
    /\ \E a \in RangeArgs : a[1][1] < clock - Window /\ a[1][1] < a[2][1]
                            /\ a[2][1] < clock

(***************************************************************************)
(* Every storing backend: what is stored, round trip, range, limit         *)
(***************************************************************************)
\* the timestamp an isoformat text spells
IsoTime(text) == text.sec * MICROS + (IF text.frac = None THEN 0 ELSE text.frac[1])

\* the samples the backend b stores for the signal in the data `world`, in
\* the order they were appended: the list in _state, the lines of
\* <signal>.csv, the records of <signal>.TIME and <signal>.VALUE
StoredIn(b, world, signal) ==
    CASE b = "memory" ->
            IF signal \in DOMAIN world.mem THEN world.mem[signal] ELSE <<>>
      [] b = "csv" ->
            IF signal \o ExtCSV \in DOMAIN world.fs
            THEN [i \in 1..Len(world.fs[signal \o ExtCSV]) |->
                    <<IsoTime(world.fs[signal \o ExtCSV][i].t),
                      json_loads(world.fs[signal \o ExtCSV][i].v)>>]
            ELSE <<>>
      [] b = "binary" ->
            IF signal \o ExtTIME \in DOMAIN world.fs
                  /\ signal \o ExtVALUE \in DOMAIN world.fs
            THEN BinaryPairs(world.fs[signal \o ExtTIME],
                             world.fs[signal \o ExtVALUE])
            ELSE <<>>

\* the samples the backend b stores for the signal now
Stored(b, signal) == StoredIn(b, Here, signal)

\* the values the model writes to the backend b
ValuesOf(b) ==
    CASE b = "memory" -> MemoryValues
      [] b = "csv" -> CSVValues
      [] b = "binary" -> BinaryValues

\* the value the claim expects back for v: v itself, float(v) for binary
Expected(b, v) == IF b = "binary" THEN float(v).val ELSE v

\* C1, as claimed: in any state, a set of value v on signal s that succeeds,
\* followed at once (the clock not moving) by a latest-value get(s), returns
\* one sample whose value is v (float(v) for BinaryBackend); a latest-value
\* get of a signal that holds nothing returns the empty sequence
C1_Original ==
    /\ \A key \in Names, v \in ValuesOf(under) :
          LET put == Backend_set(under, Here, key, v, <<clock, clock>>)
              got == Backend_get(under, put.data, key, None, None, None,
                                 <<clock, clock>>)
          IN put.res.kind = "ok"
                => /\ got.res.kind = "ok"
                   /\ Len(got.res.val) = 1
                   /\ PyEq(got.res.val[1][2], Expected(under, v))
    /\ \A signal \in Names :
          Stored(under, signal) = <<>>
             => Backend_get(under, Here, signal, None, None, None,
                            <<clock, clock>>).res = Ok(<<>>)

\* a range that MemoryBackend accepts at time t
InWindow(s, e, t) == t - Window < s /\ s < e /\ e < t

\* C4, as claimed: a range get(signal, start, end) without limit (for
\* MemoryBackend: a range inside its window) returns exactly the stored
\* samples of the signal with start <= timestamp <= end, in stored order
C4_Original ==
    \A signal \in Names, s \in Instants, e \in Instants :
        (s <= e /\ (under = "memory" => InWindow(s, e, clock)))
            => Backend_get(under, Here, signal, Some(s), Some(e), None,
                           <<clock, clock>>).res
                  = Ok(InRange(Stored(under, signal), s, e))

\* the backend b lists the signal among its signals()
Knows(b, signal) == signal \in Backend_signals(b, Here)

\* the filtered range of a range get made at time t: the stored samples with
\* start <= timestamp <= end (for MemoryBackend those younger than the window)
Filtered(b, signal, s, e, t) ==
    SelectSeq(Stored(b, signal),
              LAMBDA kv : /\ s <= kv[1] /\ kv[1] <= e
                          /\ (b = "memory" => t - kv[1] < Window))

Max(x, y) == IF x >= y THEN x ELSE y

\* val holds exactly the elements of F at indices 0, stride, 2 * stride, ...
EveryStride(val, F, stride) ==
    /\ \A i \in 1..Len(val) :
          (i - 1) * stride + 1 <= Len(F) /\ val[i] = F[(i - 1) * stride + 1]
    /\ Len(val) * stride >= Len(F)

RECURSIVE IsSubseq(_, _)
IsSubseq(a, b) ==
    IF a = <<>> THEN TRUE
    ELSE IF b = <<>> THEN FALSE
    ELSE IF Head(a) = Head(b) THEN IsSubseq(Tail(a), Tail(b))
    ELSE IsSubseq(a, Tail(b))

\* C9: the sequence a range get with limit L >= 1 returns has at most L
\* elements and is a subsequence, in the original order, of what the same
\* range get returns without limit
C9_AtMostLimit ==
    \A signal \in Names, a \in RangeArgs, c \in Readings(clock, 2) :
        LET limited == Backend_get(under, Here, signal, a[1], a[2], a[3], c)
            whole == Backend_get(under, Here, signal, a[1], a[2], None, c)
        IN (a[3] # None /\ limited.res.kind = "ok")
              => /\ whole.res.kind = "ok"
                 /\ Len(limited.res.val) <= a[3][1]
                 /\ IsSubseq(limited.res.val, whole.res.val)

\* C9: a range get has just returned, and for its signal some limit L makes a
\* range get return L samples out of more
C9_Witness ==
    /\ last.op = "get" /\ last.range /\ last.res.kind = "ok"
    /\ \E a \in RangeArgs :
          LET limited == Backend_get(under, Here, last.signal, a[1], a[2], a[3],
                                     <<clock, clock>>)
              whole == Backend_get(under, Here, last.signal, a[1], a[2], None,
                                   <<clock, clock>>)
          IN /\ a[3] # None /\ limited.res.kind = "ok"
             /\ Len(limited.res.val) = a[3][1]
             /\ Len(whole.res.val) > a[3][1]

(***************************************************************************)
(* GlueBackend                                                             *)
(***************************************************************************)
\* the last call was op made through the GlueBackend
GlueDid(op) == last.backend = "glue" /\ last.op = op

\* the member call returned the empty list or raised BackendError
Skipped(call) == call.res = Ok(<<>>) \/ call.res.kind = "BackendError"

\* C5, as claimed: a GlueBackend.set calls set on every member, in list
\* order; it succeeds exactly when a member accepted the write, and raises
\* BackendError exactly when every member raised BackendError
C5_Original ==
    GlueDid("set")
        => /\ Len(last.calls) = Len(backends)
           /\ \A i \in 1..Len(last.calls) : last.calls[i].b = backends[i]
           /\ last.res.kind = "ok"
                 <=> \E i \in 1..Len(last.calls) : last.calls[i].res.kind = "ok"
           /\ last.res.kind = "BackendError"
                 <=> \A i \in 1..Len(last.calls) :
                        last.calls[i].res.kind = "BackendError"

\* the sample the CSV member holds last for the signal
CSVLatest(signal) == Stored("csv", signal)[Len(Stored("csv", signal))]

\* C6, as claimed: a GlueBackend.get calls get on the members in list order,
\* goes on past every member that returned the empty list or raised
\* BackendError, and returns the result of the first member whose result is
\* not empty, calling no member after it; and over (Memory, CSV), when the
\* memory member holds nothing for a signal of which the CSV member holds a
\* sample, a latest-value get returns that sample
C6_Original ==
    /\ GlueDid("get")
          => /\ \A i \in 1..Len(last.calls) : last.calls[i].b = backends[i]
             /\ \A i \in 1..Len(last.calls) :
                   IF Skipped(last.calls[i])
                   THEN i < Len(backends) => i < Len(last.calls)
                   ELSE /\ i = Len(last.calls)
                        /\ last.calls[i].res.kind = "ok"
                        /\ last.res = last.calls[i].res
    /\ \A signal \in Names :
          (/\ under = "glue" /\ backends = <<"memory", "csv">>
           /\ Stored("memory", signal) = <<>>
           /\ Stored("csv", signal) # <<>>)
             => GlueBackend_get(backends, Here, signal, None, None, None,
                                <<clock, clock>>).res
                   = Ok(<<CSVLatest(signal)>>)

\* C7, as claimed: a GlueBackend.get in which every member raised
\* BackendError or returned the empty list (a GlueBackend without members
\* included) raises BackendError; no GlueBackend.get returns the empty list
C7_Original ==
    GlueDid("get")
        => /\ (/\ Len(last.calls) = Len(backends)
               /\ \A i \in 1..Len(last.calls) : Skipped(last.calls[i]))
                 => last.res.kind = "BackendError"
           /\ last.res # Ok(<<>>)

(***************************************************************************)
(* Tau: the signals a get answers for                                      *)
(***************************************************************************)
\* the names among the arguments that are no patterns
Concrete(arguments) ==
    {arguments[i] : i \in {j \in 1..Len(arguments) : ~is_pattern(arguments[j])}}

\* the names of backend.signals() that a pattern among the arguments matches
Expanded(arguments) ==
    {s \in Tau_signals(under, backends, Here) :
        \E i \in 1..Len(arguments) :
            is_pattern(arguments[i]) /\ fnmatchcase(s, arguments[i])}

\* the characters of a string
Chars(s) == {s[i] : i \in 1..Len(s)}

\* C10: whenever Tau.get returns, the keys of the mapping it built are
\* exactly the names passed that are no patterns together with the names of
\* backend.signals() that match a pattern passed; with only patterns, none
\* of which matches a known signal, it returns the empty mapping (given
\* start and end together or not at all); and a pattern without '[' matches
\* no name that lacks one of its ordinary characters in the same case
C10_KeySet ==
    /\ \A arguments \in TauArguments, options \in TauOptions,
          c \in TauReadings(clock) :
          \A o \in Tau_get(under, backends, Here, arguments, options, c) :
              /\ o.res.kind = "ok"
                    => DOMAIN o.res.val.match
                          = Concrete(arguments) \cup Expanded(arguments)
              /\ (/\ Concrete(arguments) = {} /\ Expanded(arguments) = {}
                  /\ (options.start = None <=> options.end = None))
                    => /\ o.res.kind = "ok"
                       /\ ~o.res.val.unwrapped
                       /\ DOMAIN o.res.val.match = {}
    /\ \A pat \in TauStrings, s \in Tau_signals(under, backends, Here) :
          (is_pattern(pat) /\ "[" \notin Chars(pat) /\ fnmatchcase(s, pat))
             => Chars(pat) \ {"*", "?"} \subseteq Chars(s)

\* C10: a Tau.get has just returned, and in this state a get of a name given
\* directly together with a pattern returns a mapping that holds a signal
\* only the pattern brought in, while another pattern matches nothing
C10_Witness ==
    /\ last.backend = "tau" /\ last.op = "get" /\ last.res.kind = "ok"
    /\ \E arguments \in TauArguments :
          /\ Concrete(arguments) # {}
          /\ Expanded(arguments) \ Concrete(arguments) # {}
          /\ \E o \in Tau_get(under, backends, Here, arguments,
                              Options(None, None, None, None, FALSE),
                              <<clock, clock, clock, clock, clock>>) :
                /\ o.res.kind = "ok"
                /\ Cardinality(DOMAIN o.res.val.match) >= 2
    /\ \E pat \in TauStrings : is_pattern(pat) /\ Expanded(<<pat>>) = {}

(***************************************************************************)
(* Tau: the shape of what a get returns                                    *)
(***************************************************************************)
\* the arguments are one name that is no pattern
OneConcrete(arguments) == Len(arguments) = 1 /\ ~is_pattern(arguments[1])

\* the shapes of the result Tau.get gives for one signal
Shapes == {"None", "value", "sample", "values", "samples"}

\* the entry Tau.get makes of what the backend returns for the signal when
\* asked for the range r
EntryOf(signal, options, r, c) ==
    Shaped(r.start # None, options.timestamps,
           Any_get(under, backends, Here, signal, r.start, r.end, r.limit,
                   Later(c, r.used)).res.val)

\* C11: whenever Tau.get returns, it returns the bare result of the one
\* signal (what the backend gave for it, shaped, and no mapping) exactly
\* when the arguments are one name that is no pattern; in every other case
\* (no argument, a pattern, several arguments) it returns the mapping from
\* signal name to result, also when that mapping holds one entry or none
C11_Unwrap ==
    \A arguments \in TauArguments, options \in TauOptions,
       c \in TauReadings(clock) :
       \A o \in Tau_get(under, backends, Here, arguments, options, c) :
           o.res.kind = "ok"
              => /\ o.res.val.unwrapped <=> OneConcrete(arguments)
                 /\ OneConcrete(arguments)
                       => Returned(arguments, o.res.val)
                             = EntryOf(arguments[1], options,
                                       TauRange(options, c), c)
                 /\ ~OneConcrete(arguments)
                       => /\ Returned(arguments, o.res.val) = o.res.val.match
                          /\ \A k \in DOMAIN o.res.val.match :
                                o.res.val.match[k].shape \in Shapes

\* C11: a Tau.get has just returned, and in this state a get of the one name
\* 'a' returns its bare value while a get of the pattern '*', which matches
\* that one signal only, returns a mapping of one entry
C11_Witness ==
    /\ last.backend = "tau" /\ last.op = "get" /\ last.res.kind = "ok"
    /\ \E o \in Tau_get(under, backends, Here, <<<<"a">>>>,
                        Options(None, None, None, None, FALSE),
                        <<clock, clock, clock, clock, clock>>) :
          /\ o.res.kind = "ok" /\ o.res.val.unwrapped
          /\ Returned(<<<<"a">>>>, o.res.val).shape = "value"
    /\ \E o \in Tau_get(under, backends, Here, <<<<"*">>>>,
                        Options(None, None, None, None, FALSE),
                        <<clock, clock, clock, clock, clock>>) :
          /\ o.res.kind = "ok" /\ ~o.res.val.unwrapped
          /\ DOMAIN o.res.val.match = {<<"a">>}

(***************************************************************************)
(* Every backend: clear                                                    *)
(***************************************************************************)
\* Tau.get(signal) of the one name, a latest-value query, on the data
\* `world` of the backend b
TauLatest(b, world, signal) ==
    Tau_get(b, backends, world, <<signal>>,
            Options(None, None, None, None, FALSE),
            <<clock, clock, clock, clock, clock>>)

\* the backend b (a member, or "glue") knows no signal on the data `world`,
\* a latest-value get of any signal returns the empty list, through Tau
\* None, and a clear leaves the data as they are
Cleared(b, world) ==
    /\ Tau_signals(b, backends, world) = {}
    /\ \A signal \in Names :
          /\ Any_get(b, backends, world, signal, None, None, None,
                     <<clock, clock>>).res = Ok(<<>>)
          /\ \A o \in TauLatest(b, world, signal) :
                /\ o.res.kind = "ok"
                /\ Returned(<<signal>>, o.res.val) = Entry("None", <<>>)
    /\ Tau_clear(b, backends, world) = world

\* C12, as claimed: after a clear() of any backend (a MemoryBackend, a
\* CSVBackend, a BinaryBackend, a GlueBackend over any list of members) the
\* backend knows no signal, a latest-value get of any signal returns the
\* empty sequence (None through Tau), and a second clear() succeeds and
\* leaves the same empty state
C12_Original ==
    (last.op = "clear" /\ last.res.kind = "ok") => Cleared(last.backend, Here)

(***************************************************************************)
(* MemoryBackend under Tau: a signal whose samples have all expired        *)
(***************************************************************************)
\* the MemoryBackend holds the signal and none of its samples is younger
\* than the window
Expired(signal) == signal \in DOMAIN mem_state /\ ~HasLive(signal, clock)

\* the period options tried: 0.5 s and 9 s, with and without timestamps
PeriodOptions ==
    {Options(Some(p), None, None, None, ts) :
        p \in {500000, 9 * MICROS}, ts \in BOOLEAN}

\* every known signal has expired
AllExpired == \A s \in DOMAIN mem_state : Expired(s)

\* C13: with a MemoryBackend, a signal whose samples have all expired is
\* still known: signals() lists it, the pattern '*' matches it, a Tau.get
\* of it for the latest value gives None (alone or under the pattern), and
\* a Tau.get of it with a period returns, with the empty list for it; a
\* Tau.get with a period under a pattern gives the empty list for it
\* whenever it returns, and returns when every known signal has expired
C13_ExpiredKnown ==
    under = "memory" =>
      \A signal \in Names, c \in TauReadings(clock) :
        Expired(signal) =>
          /\ signal \in Tau_signals(under, backends, Here)
          /\ fnmatchcase(signal, <<"*">>)
          /\ \A ts \in BOOLEAN :
                /\ \A o \in Tau_get(under, backends, Here, <<signal>>,
                                    Options(None, None, None, None, ts), c) :
                      /\ o.res.kind = "ok"
                      /\ Returned(<<signal>>, o.res.val) = Entry("None", <<>>)
                /\ \A o \in Tau_get(under, backends, Here, <<<<"*">>>>,
                                    Options(None, None, None, None, ts), c) :
                      /\ o.res.kind = "ok"
                      /\ signal \in DOMAIN o.res.val.match
                      /\ o.res.val.match[signal] = Entry("None", <<>>)
          /\ \A options \in PeriodOptions :
                /\ \A o \in Tau_get(under, backends, Here, <<signal>>,
                                    options, c) :
                      /\ o.res.kind = "ok"
                      /\ Returned(<<signal>>, o.res.val)
                            = Entry(IF options.timestamps THEN "samples"
                                    ELSE "values", <<>>)
                /\ \A o \in Tau_get(under, backends, Here, <<<<"*">>>>,
                                    options, c) :
                      /\ AllExpired => o.res.kind = "ok"
                      /\ o.res.kind = "ok"
                            => /\ signal \in DOMAIN o.res.val.match
                               /\ o.res.val.match[signal].xs = <<>>

\* C13: a Tau.get has just returned over a MemoryBackend that still knows a
\* signal of which every sample has expired and been discarded
C13_Witness ==
    /\ under = "memory"
    /\ last.backend = "tau" /\ last.op = "get" /\ last.res.kind = "ok"
    /\ clock >= Window
    /\ \E signal \in Names : Expired(signal) /\ mem_state[signal] = <<>>

(***************************************************************************)
(* BinaryBackend: values that are no 4-byte float                          *)
(***************************************************************************)
\* the value converts to a float that a 4-byte float holds: float(value)
\* succeeds and lies within the range (rounding to 24 bits is allowed)
Representable(value) ==
    /\ float(value).kind = "ok"
    /\ pack_f(float(value).val) # PyInf

\* C14, as claimed: a BinaryBackend.set of a value that is no number, or a
\* number outside the range of a 4-byte float, fails with BackendError and
\* leaves the backend as it was: no record is added to <key>.TIME or
\* <key>.VALUE, signals() is unchanged, and a get of a signal that received
\* rejected writes only returns the empty sequence
C14_Original ==
    [][(last'.backend = "binary" /\ last'.op = "set"
           /\ ~Representable(last'.value))
         => /\ last'.res.kind = "BackendError"
            /\ fs' = fs
            /\ BinaryBackend_signals(fs') = BinaryBackend_signals(fs)
            /\ last'.signal \o ExtVALUE \notin DOMAIN fs
                  => BinaryBackend_get(fs', last'.signal, None, None,
                                       None).res = Ok(<<>>)]_vars

(***************************************************************************)
(* Every storing backend: the names signals() gives                        *)
(***************************************************************************)
\* C15, as claimed: signals() gives exactly the names set since the last
\* clear(), each unchanged: a set that succeeds adds its key, as given, to
\* what signals() gave before and nothing else, a clear() leaves signals()
\* empty, and no other call changes what signals() gives
C15_Original ==
    [][Backend_signals(under, Here')
          = IF last'.op = "set" /\ last'.res.kind = "ok"
            THEN Backend_signals(under, Here) \cup {last'.signal}
            ELSE IF last'.op = "clear" THEN {}
            ELSE Backend_signals(under, Here)]_vars

(***************************************************************************)
(* CSVBackend, BinaryBackend: a log file without records                   *)
(***************************************************************************)
\* the log of the signal is there for the backend b and holds no record
EmptyLog(b, signal) ==
    IF b = "csv"
    THEN /\ signal \o ExtCSV \in DOMAIN fs
         /\ fs[signal \o ExtCSV] = <<>>
    ELSE /\ signal \o ExtTIME \in DOMAIN fs
         /\ signal \o ExtVALUE \in DOMAIN fs
         /\ fs[signal \o ExtTIME] = <<>>
         /\ fs[signal \o ExtVALUE] = <<>>

\* C16, as claimed: for CSVBackend and BinaryBackend, a latest-value get of
\* a signal whose log file is there and holds no record returns the empty
\* sequence and does not fail
C16_Original ==
    \A signal \in Names :
        (under \in {"csv", "binary"} /\ EmptyLog(under, signal))
            => Backend_get(under, Here, signal, None, None, None,
                           <<clock, clock>>).res = Ok(<<>>)

(***************************************************************************)
(* GlueBackend: clear when a member fails                                  *)
(***************************************************************************)
\* the member b holds nothing: a clear() of it would change nothing
MemberEmpty(b) == Backend_clear(b, Here) = Here

\* C17, as claimed: a GlueBackend.clear() calls clear() on every member, and
\* every member whose own clear() did not fail holds nothing afterwards,
\* the members after one whose clear() failed included
C17_Original ==
    GlueDid("clear")
        => /\ Len(last.calls) = Len(backends)
           /\ \A i \in 1..Len(backends) :
                 (i > Len(last.calls) \/ last.calls[i].res.kind = "ok")
                    => MemberEmpty(backends[i])

(***************************************************************************)
(* MemoryBackend: which range gets are refused                             *)
(***************************************************************************)
\* the samples of the signal that MemoryBackend retains at time t
Retained(signal, t) ==
    IF signal \in DOMAIN mem_state
    THEN SelectSeq(mem_state[signal], LAMBDA kv : t - kv[1] < Window)
    ELSE <<>>

\* C18, as claimed: a range get of MemoryBackend raises BackendError only
\* when start lies further back than the window: every range get with
\* now - window < start and start <= end succeeds and returns the retained
\* samples with start <= timestamp <= end (thinned by the limit), also when
\* start = end and when end >= now
C18_Original ==
    \A signal \in Names, a \in RangeArgs, c \in Readings(clock, 2) :
        LET o == MemoryBackend_get(mem_state, signal, a[1], a[2], a[3], c)
        IN /\ c[2] - Window < a[1][1]
                => o.res = Ok(Decimate(InRange(Retained(signal, c[1]),
                                               a[1][1], a[2][1]), a[3]))
           /\ o.res.kind = "BackendError" => a[1][1] <= c[2] - Window

(***************************************************************************)
(* Tau: range query or latest-value query                                  *)
(***************************************************************************)
\* the options tried for the kind of the query: those of TauOptions (among
\* them start without end) and end without start
KindOptions == TauOptions \cup {Options(None, None, Some(1000000), None, FALSE)}

\* the options ask for a range: period, or both start and end
AsksRange(options) ==
    options.period # None \/ (options.start # None /\ options.end # None)

\* the range the options ask for at the reading t of now(): with period,
\* end = now and start = end - period
AskedRange(options, t) ==
    IF options.period # None
    THEN [start |-> Some(t - options.period[1]), end |-> Some(t),
          limit |-> options.limit, used |-> 1, found |-> TRUE]
    ELSE [start |-> options.start, end |-> options.end,
          limit |-> options.limit, used |-> 0, found |-> TRUE]

\* no range
NoRange ==
    [start |-> None, end |-> None, limit |-> None, used |-> 0, found |-> TRUE]

\* C19, as claimed: Tau.get is a range query exactly when period is given or
\* both start and end are given: it then gives, for each signal, what the
\* backend returns for the range (with period: end = now, start = end -
\* period) as a list; in every other case, only start or only end given
\* included, it is a latest-value query: it returns, and gives for each
\* signal the latest value (or sample) or None
C19_Original ==
    \A arguments \in TauArguments, options \in KindOptions,
       c \in TauReadings(clock) :
       \A o \in Tau_get(under, backends, Here, arguments, options, c) :
           IF AsksRange(options)
           THEN o.res.kind = "ok"
                   => \A k \in DOMAIN o.res.val.match :
                         /\ o.res.val.match[k].shape \in {"values", "samples"}
                         /\ o.res.val.match[k]
                               = EntryOf(k, options, AskedRange(options, c[1]), c)
           ELSE /\ o.res.kind = "ok"
                /\ \A k \in DOMAIN o.res.val.match :
                      /\ o.res.val.match[k].shape \in {"None", "value", "sample"}
                      /\ o.res.val.match[k] = EntryOf(k, options, NoRange, c)

(***************************************************************************)
(* Tau.set over several signals                                            *)
(***************************************************************************)
\* the backend refuses the value with BackendError
Refused(value) ==
    Backend_set(under, Here, <<"a">>, value, <<clock, clock>>).res.kind
        = "BackendError"

\* the first entry of items whose value the backend refuses, Len(items) + 1
\* if it refuses none
FirstRefused(items) ==
    CHOOSE i \in 1..(Len(items) + 1) :
        /\ \A j \in 1..(i - 1) : ~Refused(items[j][2])
        /\ i <= Len(items) => Refused(items[i][2])

\* the samples of the signal the backend keeps at a set made now: those it
\* stores (MemoryBackend: the unexpired ones)
Kept(signal) ==
    IF under = "memory" THEN Retained(signal, clock) ELSE Stored(under, signal)

\* `after` is `before` with one sample appended
OneMore(after, before) ==
    /\ Len(after) = Len(before) + 1
    /\ SubSeq(after, 1, Len(before)) = before

\* C20: Tau.set over a mapping is not transactional and catches nothing:
\* when the backend raises BackendError for an entry, the call ends with
\* that BackendError, every entry before it has been written (one sample
\* more for its signal) and no entry from it on has been written; when the
\* backend refuses none, the call returns and every entry is written
C20_NotTransactional ==
    \A items \in TauItems, c \in TauReadings(clock) :
        LET o == Tau_set(under, backends, Here, items, c, 0)
            f == FirstRefused(items)
        IN /\ o.res = IF f <= Len(items) THEN Raise("BackendError") ELSE Ok(<<>>)
           /\ \A i \in 1..Len(items) :
                 IF i < f
                 THEN OneMore(StoredIn(under, o.data, items[i][1]),
                              Kept(items[i][1]))
                 ELSE StoredIn(under, o.data, items[i][1]) = Kept(items[i][1])

\* C20: a Tau.set has just failed with BackendError, the backend holding a
\* sample of one signal and none of the other, and in this state a Tau.set
\* of two entries of which the backend refuses the second writes the first
\* and fails
C20_Witness ==
    /\ last.backend = "tau" /\ last.op = "set"
    /\ last.res.kind = "BackendError"
    /\ \E k \in Names \X Names :
          /\ Stored(under, k[1]) # <<>> /\ Stored(under, k[2]) = <<>>
          /\ LET items == <<<<k[2], PyInt(1)>>, <<k[1], PyStr(<<"I">>)>>>>
                 o == Tau_set(under, backends, Here, items,
                              <<clock, clock, clock, clock, clock>>, 0)
             IN /\ o.res.kind = "BackendError"
                /\ StoredIn(under, o.data, k[2]) # <<>>

(***************************************************************************)
(* BinaryBackend: the two logs of a signal                                 *)
(***************************************************************************)
\* the records of the file, none if the file is not there
RecordsOf(files, name) == IF name \in DOMAIN files THEN files[name] ELSE <<>>

\* a range get of the signal over every instant, and a latest-value get
WholeGets(files, signal) ==
    {BinaryBackend_get(files, signal, Some(0), Some(2 * MICROS), None),
     BinaryBackend_get(files, signal, None, None, None)}

\* C21: for BinaryBackend, every set of a signal, whatever the value, either
\* appends one record to <key>.TIME (the ticks of its own now()) and one to
\* <key>.VALUE (its own value as a 4-byte float), or, when it fails, appends
\* to neither; so after any sequence of sets the two logs of every signal
\* hold the same number of records, and every sample a get returns pairs
\* record i of VALUE with record i of TIME
C21_LogsInStep ==
    [][under = "binary" =>
         /\ (last'.backend = "binary" /\ last'.op = "set")
               => LET time == last'.signal \o ExtTIME
                      value == last'.signal \o ExtVALUE
                  IN IF last'.res.kind = "ok"
                     THEN /\ RecordsOf(fs', time)
                                = Append(RecordsOf(fs, time), to_ticks(clock'))
                          /\ RecordsOf(fs', value)
                                = Append(RecordsOf(fs, value),
                                         pack_f(float(last'.value).val))
                          /\ \A f \in DOMAIN fs \ {time, value} :
                                f \in DOMAIN fs' /\ fs'[f] = fs[f]
                     ELSE fs' = fs
         /\ \A key \in Names :
               /\ Len(RecordsOf(fs', key \o ExtTIME))
                     = Len(RecordsOf(fs', key \o ExtVALUE))
               /\ \A o \in WholeGets(fs', key) :
                     o.res.kind = "ok"
                        => \A n \in 1..Len(o.res.val) :
                              \E i \in 1..Len(fs'[key \o ExtVALUE]) :
                                 o.res.val[n]
                                    = <<to_date(fs'[key \o ExtTIME][i]),
                                        fs'[key \o ExtVALUE][i]>>]_vars

\* C21: a set has just failed on a signal of which the BinaryBackend holds
\* records written by sets that were accepted
C21_Witness ==
    /\ last.backend = "binary" /\ last.op = "set"
    /\ last.res.kind \in {"BackendError", "TypeError"}
    /\ Len(RecordsOf(fs, last.signal \o ExtVALUE)) >= 1
    /\ clock > 0

(***************************************************************************)
(* CSVBackend, BinaryBackend: the series only grows                        *)
(***************************************************************************)
\* a range get of the signal that covers every instant, on the data `world`
GetAll(world, signal) ==
    Backend_get(under, world, signal, Some(0), Some(2 * MICROS), None,
                <<clock, clock>>)

\* C22, as claimed: for CSVBackend and BinaryBackend, without clear, the
\* series of a signal only grows by append: a set that is accepted appends
\* one sample to the series of its signal, no call removes or changes a
\* sample, a get changes nothing, and a range get that covers every
\* timestamp returns the whole series, every sample accepted, in set order
C22_Original ==
    [][(under \in {"csv", "binary"} /\ last'.op # "clear")
         => /\ \A signal \in Names :
                  LET before == StoredIn(under, Here, signal)
                      after == StoredIn(under, Here', signal)
                  IN /\ IF /\ last'.op = "set" /\ last'.res.kind = "ok"
                            /\ last'.signal = signal
                         THEN OneMore(after, before)
                         ELSE after = before
                     /\ GetAll(Here', signal).res = Ok(after)
            /\ last'.op = "get" => fs' = fs]_vars

(***************************************************************************)
(* GlueBackend: the sample the members hold after one set                  *)
(***************************************************************************)
\* a latest-value get of the signal on the member b, made now
MemberLatest(b, signal) ==
    Backend_get(b, Here, signal, None, None, None, <<clock, clock>>).res

\* a latest-value get of the signal on the GlueBackend, made now
GlueLatest(signal) ==
    GlueBackend_get(backends, Here, signal, None, None, None,
                    <<clock, clock>>).res

\* the two results are one sample each, with the same timestamp and equal
\* values
SameSample(r1, r2) ==
    /\ r1.kind = "ok" /\ r2.kind = "ok"
    /\ Len(r1.val) = 1 /\ Len(r2.val) = 1
    /\ r1.val[1][1] = r2.val[1][1]
    /\ PyEq(r1.val[1][2], r2.val[1][2])

\* C23, as claimed: after one GlueBackend.set on Glue(Memory, Binary, CSV)
\* that succeeded, a latest-value get of the signal on the glue, on the
\* memory member and on the CSV member return equal results, one sample
\* with the same timestamp and the same value, also when the clock
\* advanced while the members were written one after another
C23_Original ==
    (/\ GlueDid("set") /\ last.res.kind = "ok"
     /\ backends = <<"memory", "binary", "csv">>)
        => /\ SameSample(GlueLatest(last.signal),
                         MemberLatest("memory", last.signal))
           /\ SameSample(MemberLatest("memory", last.signal),
                         MemberLatest("csv", last.signal))

====
